---- MODULE Spec2Model ----
(***************************************************************************)
(* Model of the Terraform provider for the Ceph RGW admin API:            *)
(* the provider's Configure and the Create/Read/Update/Delete handlers of  *)
(* the bucket quota, user quota, uid/type quota and bucket link resources. *)
(*                                                                         *)
(* One behaviour follows one resource instance (its kind and identifying   *)
(* attributes are fixed at Init, since every identifying attribute is      *)
(* RequiresReplace) together with the remote object it manages.            *)
(***************************************************************************)
EXTENDS Integers, Sequences, FiniteSets, TLC

(***************************************************************************)
(* Optional values.  A null attribute / nil pointer is the empty tuple; a  *)
(* known string or bool v is <<v>>; a known int64 is its four 16-bit limbs *)
(***************************************************************************)
Null == <<>>

Some(v) == <<v>>

(***************************************************************************)
(* int64 arithmetic.  An int64 x is <<l3, l2, l1, l0>> with                *)
(*   x = l3 * 2^48 + l2 * 2^32 + l1 * 2^16 + l0,                           *)
(* l3 in -2^15 .. 2^15 - 1 (it carries the sign) and l2, l1, l0 in         *)
(* 0 .. 2^16 - 1.                                                          *)
(***************************************************************************)
Limb == 256 * 256

HalfLimb == 128 * 256

\* the factor of bucket_quota_resource.go:171, part_000:181
KiB == 1024

\* a small integer as an int64
I64(n) ==
    << IF n < 0 THEN -1 ELSE 0,
       IF n < 0 THEN Limb - 1 ELSE 0,
       (n \div Limb) % Limb,
       n % Limb >>

\* the mathematical product x * 1024, its top limb left unbounded
Exact1024(x) ==
    LET p0 == x[4] * KiB
        p1 == x[3] * KiB + (p0 \div Limb)
        p2 == x[2] * KiB + (p1 \div Limb)
        p3 == x[1] * KiB + (p2 \div Limb)
    IN  << p3, p2 % Limb, p1 % Limb, p0 % Limb >>

\* two's complement wrap of the top limb to 64 bits
Wrap64(t) ==
    << ((t[1] + HalfLimb) % Limb) - HalfLimb, t[2], t[3], t[4] >>

\* Go's int64 multiplication x * 1024: it wraps around silently
Mul1024(x) == Wrap64(Exact1024(x))

\* floor(x / 1024)
Div1024(x) ==
    LET v2 == (x[1] % KiB) * Limb + x[2]
        v1 == (v2 % KiB) * Limb + x[3]
        v0 == (v1 % KiB) * Limb + x[4]
    IN  << x[1] \div KiB, v2 \div KiB, v1 \div KiB, v0 \div KiB >>

\* types.Int64.ValueInt64(): the zero value for null
ValueInt64(a) == IF a = Null THEN I64(0) ELSE a

\* 2^53, the smallest positive max_size_kb whose product by 1024 leaves int64
TwoTo53 == << 32, 0, 0, 0 >>

MinInt64 == << -HalfLimb, 0, 0, 0 >>

\* Go's int is 64 bits wide on the 64-bit targets the provider is built for
IntBits == 64

\* the conversion int(v) of an int64 v
ToInt(v) ==
    IF IntBits = 64
    THEN v
    ELSE << IF v[3] >= HalfLimb THEN -1 ELSE 0,
            IF v[3] >= HalfLimb THEN Limb - 1 ELSE 0,
            v[3], v[4] >>

\* the conversion int64(v) of an int v: widening keeps the value
ToInt64(v) == v

(***************************************************************************)
(* Values the model draws its inputs from.                                 *)
(***************************************************************************)
UIDs == {"u1", "u2"}

Buckets == {"b1"}

QuotaTypes == {"user", "bucket"}

\* errors an admin-client method returns; ErrNil is Go's nil error
ErrNil == "nil"

ErrNoSuchUser == "NoSuchUser"

ErrNoSuchBucket == "NoSuchBucket"

ErrOther == "InternalError"

Errors == {ErrNil, ErrNoSuchUser, ErrNoSuchBucket, ErrOther}

\* an Optional attribute with a Default: the plan holds the default d when
\* the configuration leaves the attribute out
WithDefault(attr, d) == IF attr = Null THEN d ELSE attr

\* configured <<check_on_raw, max_size_kb, max_objects>>: max_size_kb left out,
\* 0, ordinary, and one whose byte count overflows int64
Limits ==
    { << FALSE, Null, Null >>,
      << TRUE, I64(0), I64(7) >>,
      << FALSE, I64(5), I64(7) >>,
      << TRUE, I64(5), Null >>,
      << TRUE, TwoTo53, I64(-1) >> }

Kinds == {"bucket_quota", "user_quota", "quota", "bucket_link"}

\* a resource instance: its kind and its identifying (RequiresReplace) attributes
Idents ==
    [kind : {"bucket_quota"}, uid : {"u1"}, bucket : Buckets, type : {""}]
    \cup [kind : {"user_quota"}, uid : {"u2"}, bucket : {""}, type : {"user"}]
    \cup [kind : {"quota"}, uid : {"u1"}, bucket : {""}, type : QuotaTypes]
    \cup [kind : {"bucket_link"}, uid : UIDs, bucket : Buckets, type : {""}]

(***************************************************************************)
(* The remote side.  quota is what a Get call answers (a nil pointer field *)
(* of the answer is Null); owner is the uid the bucket is linked to.       *)
(***************************************************************************)
DefaultRemoteQuota ==
    [enabled |-> Some(FALSE), check_on_raw |-> FALSE, max_size |-> I64(-1),
     max_size_kb |-> I64(0), max_objects |-> I64(-1)]

\* quotas an out-of-band change can leave on the remote
DriftQuotas ==
    { [enabled |-> Some(TRUE), check_on_raw |-> TRUE, max_size |-> I64(2048),
       max_size_kb |-> I64(2), max_objects |-> I64(9)],
      [enabled |-> Some(FALSE), check_on_raw |-> FALSE, max_size |-> I64(-1),
       max_size_kb |-> I64(0), max_objects |-> Null],
      [enabled |-> Null, check_on_raw |-> TRUE, max_size |-> Null,
       max_size_kb |-> Null, max_objects |-> I64(9)] }

VARIABLES
    ident,      \* the resource instance this behaviour follows
    client,     \* the resource's client field: Null until Configure stores it
    state,      \* the Terraform state of the resource: Null when absent
    remote,     \* the remote object the resource manages
    last,       \* what the last handler invocation did
    prov        \* the provider: its environment and what Configure published

vars == << ident, client, state, remote, last, prov >>

\* the record of a handler that decoded its data and ran
Ran(h, data, calls, diags) ==
    [handler |-> h, decoded |-> TRUE, data |-> Some(data), prior |-> state,
     calls |-> calls, diags |-> diags]

\* the record of a handler that returned because Plan.Get / State.Get failed
DecodeFailed(h) ==
    [handler |-> h, decoded |-> FALSE, data |-> Null, prior |-> state,
     calls |-> <<>>, diags |-> 1]

Call(method, req, err) == [method |-> method, req |-> req, err |-> err]

\* what a successful quota setter leaves on the remote: the fields the request
\* carries; a KB limit also fixes the byte limit, and a byte limit the KB limit
SetRemoteQuota(old, q) ==
    [enabled |-> IF q.Enabled # Null THEN q.Enabled ELSE old.enabled,
     check_on_raw |-> q.CheckOnRaw,
     max_size |->
        IF q.MaxSize # Null THEN q.MaxSize
        ELSE IF q.MaxSizeKb # Null THEN Mul1024(ToInt64(q.MaxSizeKb))
        ELSE old.max_size,
     max_size_kb |->
        IF q.MaxSize # Null
        THEN (IF q.MaxSize = I64(-1) THEN I64(0) ELSE Div1024(q.MaxSize))
        ELSE IF q.MaxSizeKb # Null THEN ToInt64(q.MaxSizeKb)
        ELSE old.max_size_kb,
     max_objects |-> IF q.MaxObjects # Null THEN q.MaxObjects ELSE old.max_objects]

(***************************************************************************)
(* bucket_quota_resource.go                                                *)
(***************************************************************************)
BucketQuotaPlans ==
    { [bucket |-> ident.bucket, uid |-> ident.uid, enabled |-> e,
       check_on_raw |-> l[1], max_size |-> Null,
       max_size_kb |-> WithDefault(l[2], I64(0)),
       max_objects |-> WithDefault(l[3], I64(-1))] : e \in BOOLEAN, l \in Limits }

rgwBucketQuotaFromSchemaQuota(data) ==
    [Bucket |-> data.bucket, UID |-> data.uid, QuotaType |-> "",
     Enabled |-> Some(data.enabled), CheckOnRaw |-> data.check_on_raw,
     MaxSizeKb |->
        IF data.max_size_kb # Null /\ ValueInt64(data.max_size_kb) # I64(0)
        THEN ToInt(ValueInt64(data.max_size_kb)) ELSE Null,
     MaxSize |->
        IF data.max_size_kb # Null /\ ValueInt64(data.max_size_kb) # I64(0)
        THEN Null ELSE I64(-1),
     MaxObjects |-> data.max_objects]


\* a max_size that is saved as unlimited whatever the KB limit
BucketQuotaMaxSizeUnlimited(data) == I64(-1)

\* the max_size Create and Update compute before they save the state
BucketQuotaMaxSize(data) ==
    IF ValueInt64(data.max_size_kb) # I64(0)
    THEN Mul1024(ValueInt64(data.max_size_kb))
    ELSE I64(-1)

\* Create / Update taking a missing bucket for success
BucketQuotaSetFailedButNotFound(err) == err # ErrNil /\ err # ErrNoSuchBucket

\* whether Create / Update report the setter's error
BucketQuotaSetFailed(err) == err # ErrNil

BucketQuotaCreate ==
    /\ ident.kind = "bucket_quota" /\ client # Null /\ state = Null
    /\ \/ /\ last' = DecodeFailed("Create")
          /\ UNCHANGED << state, remote >>
       \/ \E data \in BucketQuotaPlans, err \in Errors :
            LET quota == rgwBucketQuotaFromSchemaQuota(data)
                calls == << Call("SetIndividualBucketQuota", quota, err) >>
            IN  /\ remote' = IF err = ErrNil
                             THEN [remote EXCEPT !.quota = SetRemoteQuota(@, quota)]
                             ELSE remote
                /\ IF BucketQuotaSetFailed(err)
                   THEN /\ state' = state
                        /\ last' = Ran("Create", data, calls, 1)
                   ELSE /\ state' = Some([data EXCEPT !.max_size = BucketQuotaMaxSize(data)])
                        /\ last' = Ran("Create", data, calls, 0)
    /\ UNCHANGED << ident, client, prov >>

\* what Read does with the error of GetBucketInfo
BucketQuotaReadOutcome(err) ==
    IF err # ErrNil
    THEN (IF err = ErrNoSuchBucket THEN "remove" ELSE "error")
    ELSE "copy"

\* Read forgetting the byte limit of the answer
BucketQuotaReadIntoNoMaxSize(data, q) ==
    [data EXCEPT
        !.enabled = IF q.enabled # Null THEN q.enabled[1] ELSE @,
        !.check_on_raw = q.check_on_raw,
        !.max_size_kb = IF q.max_size_kb # Null THEN ToInt64(q.max_size_kb) ELSE @,
        !.max_objects = IF q.max_objects # Null THEN q.max_objects ELSE @]

\* the answer's quota copied into the model
BucketQuotaReadInto(data, q) ==
    [data EXCEPT
        !.enabled = IF q.enabled # Null THEN q.enabled[1] ELSE @,
        !.check_on_raw = q.check_on_raw,
        !.max_size = IF q.max_size # Null THEN q.max_size ELSE @,
        !.max_size_kb = IF q.max_size_kb # Null THEN ToInt64(q.max_size_kb) ELSE @,
        !.max_objects = IF q.max_objects # Null THEN q.max_objects ELSE @]

BucketQuotaRead ==
    /\ ident.kind = "bucket_quota" /\ client # Null /\ state # Null
    /\ \/ /\ last' = DecodeFailed("Read")
          /\ UNCHANGED state
       \/ \E err \in Errors :
            LET data == state[1]
                calls == << [method |-> "GetBucketInfo", req |-> [Bucket |-> data.bucket],
                             err |-> err, resp |-> remote.quota] >>
                outcome == BucketQuotaReadOutcome(err)
            IN  CASE outcome = "remove" ->
                        /\ state' = Null
                        /\ last' = Ran("Read", data, calls, 0)
                  [] outcome = "error" ->
                        /\ state' = state
                        /\ last' = Ran("Read", data, calls, 1)
                  [] outcome = "copy" ->
                        /\ state' = Some(BucketQuotaReadInto(data, remote.quota))
                        /\ last' = Ran("Read", data, calls, 0)
    /\ UNCHANGED << ident, client, remote, prov >>

BucketQuotaUpdate ==
    /\ ident.kind = "bucket_quota" /\ client # Null /\ state # Null
    /\ \/ /\ last' = DecodeFailed("Update")
          /\ UNCHANGED << state, remote >>
       \/ \E data \in BucketQuotaPlans, err \in Errors :
            LET quota == rgwBucketQuotaFromSchemaQuota(data)
                calls == << Call("SetIndividualBucketQuota", quota, err) >>
            IN  /\ remote' = IF err = ErrNil
                             THEN [remote EXCEPT !.quota = SetRemoteQuota(@, quota)]
                             ELSE remote
                /\ IF BucketQuotaSetFailed(err)
                   THEN /\ state' = state
                        /\ last' = Ran("Update", data, calls, 1)
                   ELSE /\ state' = Some([data EXCEPT !.max_size = BucketQuotaMaxSize(data)])
                        /\ last' = Ran("Update", data, calls, 0)
    /\ UNCHANGED << ident, client, prov >>


\* a Delete request that disables the quota and keeps the limits of the state
BucketQuotaDeleteQuotaKeepsLimits(data) ==
    [rgwBucketQuotaFromSchemaQuota(data) EXCEPT !.Enabled = Some(FALSE)]

\* the request Delete sends: the state's quota, disabled and with its limits reset
BucketQuotaDeleteQuota(data) ==
    [rgwBucketQuotaFromSchemaQuota(data) EXCEPT
        !.Enabled = Some(FALSE),
        !.MaxSize = I64(-1),
        !.MaxSizeKb = Null,
        !.MaxObjects = I64(-1)]

\* the error diagnostics Delete records for the setter's error: the first test
\* returns on every error, so the not-found test after it is never reached
BucketQuotaDeleteDiags(err) ==
    IF err # ErrNil THEN 1
    ELSE IF err # ErrNil /\ err # ErrNoSuchBucket THEN 1
    ELSE 0

\* the host removes the resource from state when Delete records no error
BucketQuotaDelete ==
    /\ ident.kind = "bucket_quota" /\ client # Null /\ state # Null
    /\ \/ /\ last' = DecodeFailed("Delete")
          /\ UNCHANGED << state, remote >>
       \/ \E err \in Errors :
            LET data == state[1]
                quota == BucketQuotaDeleteQuota(data)
                calls == << Call("SetIndividualBucketQuota", quota, err) >>
                diags == BucketQuotaDeleteDiags(err)
            IN  /\ remote' = IF err = ErrNil
                             THEN [remote EXCEPT !.quota = SetRemoteQuota(@, quota)]
                             ELSE remote
                /\ state' = IF diags = 0 THEN Null ELSE state
                /\ last' = Ran("Delete", data, calls, diags)
    /\ UNCHANGED << ident, client, prov >>

(***************************************************************************)
(* user_quota.go                                                           *)
(***************************************************************************)
\* planned <<check_on_raw, max_size, max_size_kb, max_objects>>
UserLimits ==
    { << FALSE, Null, Null, Null >>,
      << TRUE, I64(-1), Null, I64(7) >>,
      << FALSE, Null, I64(5), I64(7) >>,
      << TRUE, I64(5120), I64(5), Null >>,
      << TRUE, Null, I64(0), I64(-1) >> }

UserQuotaPlans ==
    { [uid |-> ident.uid, enabled |-> e, check_on_raw |-> l[1],
       max_size |-> l[2], max_size_kb |-> l[3], max_objects |-> l[4]] :
         e \in BOOLEAN, l \in UserLimits }

rgwUserQuotaFromSchemaQuota(data) ==
    [Bucket |-> "", UID |-> data.uid, QuotaType |-> "user",
     Enabled |-> Some(data.enabled), CheckOnRaw |-> data.check_on_raw,
     MaxSize |-> IF data.max_size # Null THEN ValueInt64(data.max_size) ELSE Null,
     MaxSizeKb |->
        IF data.max_size_kb # Null THEN ToInt(ValueInt64(data.max_size_kb)) ELSE Null,
     MaxObjects |->
        IF data.max_objects # Null THEN ValueInt64(data.max_objects) ELSE Null]

\* whether Create / Update report the setter's error
UserQuotaSetFailed(err) == err # ErrNil

UserQuotaCreate ==
    /\ ident.kind = "user_quota" /\ client # Null /\ state = Null
    /\ \/ /\ last' = DecodeFailed("Create")
          /\ UNCHANGED << state, remote >>
       \/ \E data \in UserQuotaPlans, err \in Errors :
            LET quota == rgwUserQuotaFromSchemaQuota(data)
                calls == << Call("SetUserQuota", quota, err) >>
            IN  /\ remote' = IF err = ErrNil
                             THEN [remote EXCEPT !.quota = SetRemoteQuota(@, quota)]
                             ELSE remote
                /\ IF UserQuotaSetFailed(err)
                   THEN /\ state' = state
                        /\ last' = Ran("Create", data, calls, 1)
                   ELSE /\ state' = Some(data)
                        /\ last' = Ran("Create", data, calls, 0)
    /\ UNCHANGED << ident, client, prov >>


\* a Read that accepts the quota of whatever user the API answers with
UserQuotaReadOutcomeAnyUser(err, uid, respUID) ==
    IF err # ErrNil
    THEN (IF err = ErrNoSuchUser THEN "remove" ELSE "error")
    ELSE "copy"

\* what Read does with the error of GetUserQuota and the UID of its answer
UserQuotaReadOutcome(err, uid, respUID) ==
    IF err # ErrNil
    THEN (IF err = ErrNoSuchUser THEN "remove" ELSE "error")
    ELSE IF uid # respUID THEN "error"
    ELSE "copy"


\* a Read that takes a field missing from the answer for null
UserQuotaReadIntoClearsAbsent(data, q) ==
    [data EXCEPT
        !.enabled = IF q.enabled # Null THEN q.enabled[1] ELSE FALSE,
        !.check_on_raw = q.check_on_raw,
        !.max_size = q.max_size,
        !.max_size_kb = q.max_size_kb,
        !.max_objects = q.max_objects]

UserQuotaReadInto(data, q) ==
    [data EXCEPT
        !.enabled = IF q.enabled # Null THEN q.enabled[1] ELSE @,
        !.check_on_raw = q.check_on_raw,
        !.max_size = IF q.max_size # Null THEN q.max_size ELSE @,
        !.max_size_kb = IF q.max_size_kb # Null THEN ToInt64(q.max_size_kb) ELSE @,
        !.max_objects = IF q.max_objects # Null THEN q.max_objects ELSE @]

UserQuotaRead ==
    /\ ident.kind = "user_quota" /\ client # Null /\ state # Null
    /\ \/ /\ last' = DecodeFailed("Read")
          /\ UNCHANGED state
       \/ \E err \in Errors, respUID \in UIDs :
            LET data == state[1]
                calls == << [method |-> "GetUserQuota", req |-> [UID |-> data.uid],
                             err |-> err, respUID |-> respUID, resp |-> remote.quota] >>
                outcome == UserQuotaReadOutcome(err, data.uid, respUID)
            IN  /\ (err # ErrNil => respUID = data.uid)
                /\ CASE outcome = "remove" ->
                            /\ state' = Null
                            /\ last' = Ran("Read", data, calls, 0)
                      [] outcome = "error" ->
                            /\ state' = state
                            /\ last' = Ran("Read", data, calls, 1)
                      [] outcome = "copy" ->
                            /\ state' = Some(UserQuotaReadInto(data, remote.quota))
                            /\ last' = Ran("Read", data, calls, 0)
    /\ UNCHANGED << ident, client, remote, prov >>

UserQuotaUpdate ==
    /\ ident.kind = "user_quota" /\ client # Null /\ state # Null
    /\ \/ /\ last' = DecodeFailed("Update")
          /\ UNCHANGED << state, remote >>
       \/ \E data \in UserQuotaPlans, err \in Errors :
            LET quota == rgwUserQuotaFromSchemaQuota(data)
                calls == << Call("SetUserQuota", quota, err) >>
            IN  /\ remote' = IF err = ErrNil
                             THEN [remote EXCEPT !.quota = SetRemoteQuota(@, quota)]
                             ELSE remote
                /\ IF UserQuotaSetFailed(err)
                   THEN /\ state' = state
                        /\ last' = Ran("Update", data, calls, 1)
                   ELSE /\ state' = Some(data)
                        /\ last' = Ran("Update", data, calls, 0)
    /\ UNCHANGED << ident, client, prov >>


\* a Delete request that resets the limits as the other quota kinds do
UserQuotaDeleteQuotaResetsLimits(data) ==
    [rgwUserQuotaFromSchemaQuota(data) EXCEPT
        !.Enabled = Some(FALSE),
        !.MaxSize = I64(-1),
        !.MaxSizeKb = Null,
        !.MaxObjects = I64(-1)]

\* Delete sending the state's quota as it is
UserQuotaDeleteQuotaAsIs(data) == rgwUserQuotaFromSchemaQuota(data)

\* the request Delete sends: the state's quota, disabled
UserQuotaDeleteQuota(data) ==
    [rgwUserQuotaFromSchemaQuota(data) EXCEPT !.Enabled = Some(FALSE)]

\* the error diagnostics Delete records for the setter's error: the first test
\* returns on every error, so the not-found test after it is never reached
UserQuotaDeleteDiags(err) ==
    IF err # ErrNil THEN 1
    ELSE IF err # ErrNil /\ err # ErrNoSuchUser THEN 1
    ELSE 0

UserQuotaDelete ==
    /\ ident.kind = "user_quota" /\ client # Null /\ state # Null
    /\ \/ /\ last' = DecodeFailed("Delete")
          /\ UNCHANGED << state, remote >>
       \/ \E err \in Errors :
            LET data == state[1]
                quota == UserQuotaDeleteQuota(data)
                calls == << Call("SetUserQuota", quota, err) >>
                diags == UserQuotaDeleteDiags(err)
            IN  /\ remote' = IF err = ErrNil
                             THEN [remote EXCEPT !.quota = SetRemoteQuota(@, quota)]
                             ELSE remote
                /\ state' = IF diags = 0 THEN Null ELSE state
                /\ last' = Ran("Delete", data, calls, diags)
    /\ UNCHANGED << ident, client, prov >>

(***************************************************************************)
(* The uid/type quota resource (QuotaResource).                            *)
(***************************************************************************)
QuotaPlans ==
    { [uid |-> ident.uid, type |-> ident.type, enabled |-> e,
       check_on_raw |-> l[1], max_size |-> Null,
       max_size_kb |-> WithDefault(l[2], I64(0)),
       max_objects |-> WithDefault(l[3], I64(-1))] : e \in BOOLEAN, l \in Limits }


\* a request that always carries MaxSize = -1, next to any KB limit
rgwQuotaFromSchemaQuotaBothLimits(data) ==
    [Bucket |-> "", UID |-> data.uid, QuotaType |-> data.type,
     Enabled |-> Some(data.enabled), CheckOnRaw |-> data.check_on_raw,
     MaxSizeKb |->
        IF data.max_size_kb # Null /\ ValueInt64(data.max_size_kb) # I64(0)
        THEN ToInt(ValueInt64(data.max_size_kb)) ELSE Null,
     MaxSize |-> I64(-1),
     MaxObjects |-> data.max_objects]

rgwQuotaFromSchemaQuota(data) ==
    [Bucket |-> "", UID |-> data.uid, QuotaType |-> data.type,
     Enabled |-> Some(data.enabled), CheckOnRaw |-> data.check_on_raw,
     MaxSizeKb |->
        IF data.max_size_kb # Null /\ ValueInt64(data.max_size_kb) # I64(0)
        THEN ToInt(ValueInt64(data.max_size_kb)) ELSE Null,
     MaxSize |->
        IF data.max_size_kb # Null /\ ValueInt64(data.max_size_kb) # I64(0)
        THEN Null ELSE I64(-1),
     MaxObjects |-> data.max_objects]

\* the admin-client setter and getter the type selects
QuotaSetter(type) == IF type = "user" THEN "SetUserQuota" ELSE "SetBucketQuota"


\* a getter that takes every quota for a user quota
QuotaGetterUserOnly(type) == "GetUserQuota"

QuotaGetter(type) == IF type = "user" THEN "GetUserQuota" ELSE "GetBucketQuota"

\* the max_size Create and Update compute before they save the state
QuotaMaxSize(data) ==
    IF ValueInt64(data.max_size_kb) # I64(0)
    THEN Mul1024(ValueInt64(data.max_size_kb))
    ELSE I64(-1)

\* whether Create / Update report the setter's error
QuotaSetFailed(err) == err # ErrNil

QuotaCreate ==
    /\ ident.kind = "quota" /\ client # Null /\ state = Null
    /\ \/ /\ last' = DecodeFailed("Create")
          /\ UNCHANGED << state, remote >>
       \/ \E data \in QuotaPlans, err \in Errors :
            LET quota == rgwQuotaFromSchemaQuota(data)
                calls == << Call(QuotaSetter(data.type), quota, err) >>
            IN  /\ remote' = IF err = ErrNil
                             THEN [remote EXCEPT !.quota = SetRemoteQuota(@, quota)]
                             ELSE remote
                /\ IF QuotaSetFailed(err)
                   THEN /\ state' = state
                        /\ last' = Ran("Create", data, calls, 1)
                   ELSE /\ state' = Some([data EXCEPT !.max_size = QuotaMaxSize(data)])
                        /\ last' = Ran("Create", data, calls, 0)
    /\ UNCHANGED << ident, client, prov >>

\* Read testing for the wrong not-found error
QuotaReadOutcomeNoSuchBucket(err) ==
    IF err # ErrNil
    THEN (IF err = ErrNoSuchBucket THEN "remove" ELSE "error")
    ELSE "copy"

\* what Read does with the error of the getter
QuotaReadOutcome(err) ==
    IF err # ErrNil
    THEN (IF err = ErrNoSuchUser THEN "remove" ELSE "error")
    ELSE "copy"

QuotaReadInto(data, q) ==
    [data EXCEPT
        !.enabled = IF q.enabled # Null THEN q.enabled[1] ELSE @,
        !.check_on_raw = q.check_on_raw,
        !.max_size = IF q.max_size # Null THEN q.max_size ELSE @,
        !.max_size_kb = IF q.max_size_kb # Null THEN ToInt64(q.max_size_kb) ELSE @,
        !.max_objects = IF q.max_objects # Null THEN q.max_objects ELSE @]

QuotaRead ==
    /\ ident.kind = "quota" /\ client # Null /\ state # Null
    /\ \/ /\ last' = DecodeFailed("Read")
          /\ UNCHANGED state
       \/ \E err \in Errors :
            LET data == state[1]
                calls == << [method |-> QuotaGetter(data.type), req |-> [UID |-> data.uid],
                             err |-> err, resp |-> remote.quota] >>
                outcome == QuotaReadOutcome(err)
            IN  CASE outcome = "remove" ->
                        /\ state' = Null
                        /\ last' = Ran("Read", data, calls, 0)
                  [] outcome = "error" ->
                        /\ state' = state
                        /\ last' = Ran("Read", data, calls, 1)
                  [] outcome = "copy" ->
                        /\ state' = Some(QuotaReadInto(data, remote.quota))
                        /\ last' = Ran("Read", data, calls, 0)
    /\ UNCHANGED << ident, client, remote, prov >>

QuotaUpdate ==
    /\ ident.kind = "quota" /\ client # Null /\ state # Null
    /\ \/ /\ last' = DecodeFailed("Update")
          /\ UNCHANGED << state, remote >>
       \/ \E data \in QuotaPlans, err \in Errors :
            LET quota == rgwQuotaFromSchemaQuota(data)
                calls == << Call(QuotaSetter(data.type), quota, err) >>
            IN  /\ remote' = IF err = ErrNil
                             THEN [remote EXCEPT !.quota = SetRemoteQuota(@, quota)]
                             ELSE remote
                /\ IF QuotaSetFailed(err)
                   THEN /\ state' = state
                        /\ last' = Ran("Update", data, calls, 1)
                   ELSE /\ state' = Some([data EXCEPT !.max_size = QuotaMaxSize(data)])
                        /\ last' = Ran("Update", data, calls, 0)
    /\ UNCHANGED << ident, client, prov >>

\* the request Delete sends: the state's quota, disabled and with its limits reset
QuotaDeleteQuota(data) ==
    [rgwQuotaFromSchemaQuota(data) EXCEPT
        !.Enabled = Some(FALSE),
        !.MaxSize = I64(-1),
        !.MaxSizeKb = Null,
        !.MaxObjects = I64(-1)]

\* the error diagnostics Delete records for the setter's error: the first test
\* returns on every error, so the not-found test after it is never reached
QuotaDeleteDiags(err) ==
    IF err # ErrNil THEN 1
    ELSE IF err # ErrNil /\ err # ErrNoSuchUser THEN 1
    ELSE 0

QuotaDelete ==
    /\ ident.kind = "quota" /\ client # Null /\ state # Null
    /\ \/ /\ last' = DecodeFailed("Delete")
          /\ UNCHANGED << state, remote >>
       \/ \E err \in Errors :
            LET data == state[1]
                quota == QuotaDeleteQuota(data)
                calls == << Call(QuotaSetter(data.type), quota, err) >>
                diags == QuotaDeleteDiags(err)
            IN  /\ remote' = IF err = ErrNil
                             THEN [remote EXCEPT !.quota = SetRemoteQuota(@, quota)]
                             ELSE remote
                /\ state' = IF diags = 0 THEN Null ELSE state
                /\ last' = Ran("Delete", data, calls, diags)
    /\ UNCHANGED << ident, client, prov >>

(***************************************************************************)
(* The bucket link resource (BucketLinkResource).                          *)
(***************************************************************************)
BucketLinkPlans ==
    [uid : {ident.uid}, bucket : {ident.bucket},
     unlink_to_uid : {Null} \cup {Some(u) : u \in UIDs}]

\* whether Create reports the error of LinkBucket
BucketLinkCreateFailed(err) == err # ErrNil

BucketLinkCreate ==
    /\ ident.kind = "bucket_link" /\ client # Null /\ state = Null
    /\ \/ /\ last' = DecodeFailed("Create")
          /\ UNCHANGED << state, remote >>
       \/ \E data \in BucketLinkPlans, err \in Errors :
            LET rgwBucketLink == [Bucket |-> data.bucket, UID |-> data.uid]
                calls == << Call("LinkBucket", rgwBucketLink, err) >>
            IN  /\ remote' = IF err = ErrNil
                             THEN [remote EXCEPT !.owner = Some(rgwBucketLink.UID)]
                             ELSE remote
                /\ IF BucketLinkCreateFailed(err)
                   THEN /\ state' = state
                        /\ last' = Ran("Create", data, calls, 1)
                   ELSE /\ state' = Some(data)
                        /\ last' = Ran("Create", data, calls, 0)
    /\ UNCHANGED << ident, client, prov >>

\* the bucket names ListUsersBuckets answers for uid: the user's other bucket,
\* and the managed bucket when it is linked to uid
UsersBuckets(uid) ==
    IF remote.owner = Some(uid) THEN << "b0", ident.bucket >> ELSE << "b0" >>

findString(slice, str) == \E i \in 1..Len(slice) : slice[i] = str


\* a Read that keeps the link whenever the listing succeeds
BucketLinkReadOutcomeIgnoresList(err, buckets, bucket) ==
    IF err # ErrNil
    THEN (IF err = ErrNoSuchUser THEN "remove" ELSE "error")
    ELSE "keep"

\* what Read does with the error of ListUsersBuckets and the list it answers
BucketLinkReadOutcome(err, buckets, bucket) ==
    IF err # ErrNil
    THEN (IF err = ErrNoSuchUser THEN "remove" ELSE "error")
    ELSE IF ~findString(buckets, bucket) THEN "remove"
    ELSE "keep"

BucketLinkRead ==
    /\ ident.kind = "bucket_link" /\ client # Null /\ state # Null
    /\ \/ /\ last' = DecodeFailed("Read")
          /\ UNCHANGED state
       \/ \E err \in Errors :
            LET data == state[1]
                buckets == UsersBuckets(data.uid)
                calls == << [method |-> "ListUsersBuckets", req |-> data.uid,
                             err |-> err, buckets |-> buckets] >>
                outcome == BucketLinkReadOutcome(err, buckets, data.bucket)
            IN  CASE outcome = "remove" ->
                        /\ state' = Null
                        /\ last' = Ran("Read", data, calls, 0)
                  [] outcome = "error" ->
                        /\ state' = state
                        /\ last' = Ran("Read", data, calls, 1)
                  [] outcome = "keep" ->
                        /\ state' = Some(data)
                        /\ last' = Ran("Read", data, calls, 0)
    /\ UNCHANGED << ident, client, remote, prov >>

\* Update linking the bucket again
BucketLinkUpdateRelinks(data) ==
    << Call("LinkBucket", [Bucket |-> data.bucket, UID |-> data.uid], ErrNil) >>

\* the admin-client calls Update makes: there is nothing to update in place
BucketLinkUpdateCalls(data) == << >>

BucketLinkUpdate ==
    /\ ident.kind = "bucket_link" /\ client # Null /\ state # Null
    /\ \/ /\ last' = DecodeFailed("Update")
          /\ UNCHANGED state
       \/ \E data \in BucketLinkPlans :
            /\ state' = Some(data)
            /\ last' = Ran("Update", data, BucketLinkUpdateCalls(data), 0)
    /\ UNCHANGED << ident, client, remote, prov >>

\* Delete unlinking whatever unlink_to_uid says
BucketLinkDeleteCallUnlinkOnly(data) ==
    [method |-> "UnlinkBucket", req |-> [Bucket |-> data.bucket, UID |-> data.uid]]

\* the one ownership call Delete makes
BucketLinkDeleteCall(data) ==
    IF data.unlink_to_uid = Null
    THEN [method |-> "UnlinkBucket",
          req |-> [Bucket |-> data.bucket, UID |-> data.uid]]
    ELSE [method |-> "LinkBucket",
          req |-> [Bucket |-> data.bucket, UID |-> data.unlink_to_uid[1]]]

\* Delete taking a missing user for absence too
BucketLinkDeleteDiagsAnyNotFound(err) ==
    IF err # ErrNil /\ err # ErrNoSuchBucket /\ err # ErrNoSuchUser THEN 1 ELSE 0

\* the error diagnostics Delete records for the error of its call
BucketLinkDeleteDiags(err) ==
    IF err # ErrNil /\ err # ErrNoSuchBucket THEN 1 ELSE 0

BucketLinkDelete ==
    /\ ident.kind = "bucket_link" /\ client # Null /\ state # Null
    /\ \/ /\ last' = DecodeFailed("Delete")
          /\ UNCHANGED << state, remote >>
       \/ \E err \in Errors :
            LET data == state[1]
                c == BucketLinkDeleteCall(data)
                calls == << Call(c.method, c.req, err) >>
                diags == BucketLinkDeleteDiags(err)
            IN  /\ remote' = IF err # ErrNil THEN remote
                             ELSE IF c.method = "LinkBucket"
                             THEN [remote EXCEPT !.owner = Some(c.req.UID)]
                             ELSE [remote EXCEPT !.owner = Null]
                /\ state' = IF diags = 0 THEN Null ELSE state
                /\ last' = Ran("Delete", data, calls, diags)
    /\ UNCHANGED << ident, client, prov >>

(***************************************************************************)
(* Configure of a resource, and out-of-band changes of the remote.         *)
(***************************************************************************)

\* a Configure that stores whatever provider data it is given
ResourceConfigureClientAnyType(pd) == IF pd = Null THEN client ELSE pd

\* the client a resource's Configure leaves for provider data pd
ResourceConfigureClient(pd) ==
    IF pd = Null THEN client
    ELSE IF pd[1] = "RgwClient" THEN pd
    ELSE client

ResourceConfigure ==
    /\ \E pd \in {Null, Some("RgwClient"), Some("string")} :
         /\ client' = ResourceConfigureClient(pd)
         /\ last' = [handler |-> "Configure", decoded |-> TRUE, data |-> pd,
                     prior |-> state, calls |-> <<>>,
                     diags |-> IF pd # Null /\ pd[1] # "RgwClient" THEN 1 ELSE 0]
    /\ UNCHANGED << ident, state, remote, prov >>

Drift ==
    /\ \/ /\ ident.kind # "bucket_link"
          /\ \E q \in DriftQuotas : remote' = [remote EXCEPT !.quota = q]
       \/ /\ ident.kind = "bucket_link"
          /\ \E o \in {Null} \cup {Some(u) : u \in UIDs} :
               remote' = [remote EXCEPT !.owner = o]
    /\ remote' # remote
    /\ UNCHANGED << ident, client, state, last, prov >>

(***************************************************************************)
(* provider.go: RgwProvider.Configure                                      *)
(***************************************************************************)
\* what os.Getenv answers for the three variables: "" when a variable is unset
Envs ==
    [TF_PROVIDER_RGW_ENDPOINT : {"", "https://env"},
     TF_PROVIDER_RGW_ACCESS_KEY : {"", "envAK"},
     TF_PROVIDER_RGW_SECRET_KEY : {"", "envSK"}]

\* the provider block: each attribute null, empty or set
Configs ==
    [endpoint : {Null, Some(""), Some("https://cfg")},
     access_key : {Null, Some(""), Some("cfgAK")},
     secret_key : {Null, Some(""), Some("cfgSK")}]

\* the provider before Configure ran, in environment env
NewProvider(env) ==
    [env |-> env, ran |-> FALSE, config |-> Null, adminArgs |-> Null,
     admin |-> Null, s3 |-> Null,
     ResourceData |-> Null, DataSourceData |-> Null, diags |-> 0]

\* the variable taking precedence over the configured value
EnvOrConfig(attr, envValue) ==
    IF envValue # "" THEN envValue
    ELSE IF attr = Null THEN "" ELSE attr[1]

\* an attribute after the IsNull test: the configured value, or the variable's
ConfigOrEnv(attr, envValue) == IF attr = Null THEN envValue ELSE attr[1]

\* admin.New refuses an empty endpoint, access key or secret key
AdminNewFails(endpoint, accessKey, secretKey) ==
    endpoint = "" \/ accessKey = "" \/ secretKey = ""

\* the arguments admin.New is called with
AdminArgs(endpoint, accessKey, secretKey) ==
    [endpoint |-> endpoint, access_key |-> accessKey, secret_key |-> secretKey]

\* the options the S3 client is created with
S3Options(endpoint, accessKey, secretKey) ==
    [endpoint |-> endpoint, access_key |-> accessKey, secret_key |-> secretKey]

ProviderConfigure ==
    /\ \/ prov' = [NewProvider(prov.env) EXCEPT !.ran = TRUE, !.diags = 1]
       \/ \E config \in Configs :
            LET endpoint == ConfigOrEnv(config.endpoint, prov.env.TF_PROVIDER_RGW_ENDPOINT)
                accessKey == ConfigOrEnv(config.access_key, prov.env.TF_PROVIDER_RGW_ACCESS_KEY)
                secretKey == ConfigOrEnv(config.secret_key, prov.env.TF_PROVIDER_RGW_SECRET_KEY)
            IN  IF AdminNewFails(endpoint, accessKey, secretKey)
                THEN prov' = [NewProvider(prov.env) EXCEPT
                                !.ran = TRUE, !.config = Some(config),
                                !.adminArgs = Some(AdminArgs(endpoint, accessKey, secretKey)),
                                !.diags = 1]
                ELSE prov' = [NewProvider(prov.env) EXCEPT
                                !.ran = TRUE, !.config = Some(config),
                                !.adminArgs = Some(AdminArgs(endpoint, accessKey, secretKey)),
                                !.admin = Some("admin.API"),
                                !.s3 = Some(S3Options(endpoint, accessKey, secretKey)),
                                !.DataSourceData = Some("RgwClient"),
                                !.ResourceData = Some("RgwClient")]
    /\ UNCHANGED << ident, client, state, remote, last >>

NoHandler ==
    [handler |-> "none", decoded |-> TRUE, data |-> Null, prior |-> Null,
     calls |-> <<>>, diags |-> 0]

NoEnv ==
    [TF_PROVIDER_RGW_ENDPOINT |-> "", TF_PROVIDER_RGW_ACCESS_KEY |-> "",
     TF_PROVIDER_RGW_SECRET_KEY |-> ""]

Init ==
    /\ ident \in Idents
    /\ client = Null
    /\ state = Null
    /\ remote \in [quota : {DefaultRemoteQuota},
                   owner : IF ident.kind = "bucket_link"
                           THEN {Some(u) : u \in UIDs} ELSE {Null}]
    /\ last = NoHandler
    /\ prov = NewProvider(NoEnv)

Next ==
    \/ ResourceConfigure
    \/ Drift
    \/ BucketQuotaCreate
    \/ BucketQuotaRead
    \/ BucketQuotaUpdate
    \/ BucketQuotaDelete
    \/ UserQuotaCreate
    \/ UserQuotaRead
    \/ UserQuotaUpdate
    \/ UserQuotaDelete
    \/ QuotaCreate
    \/ QuotaRead
    \/ QuotaUpdate
    \/ QuotaDelete
    \/ BucketLinkCreate
    \/ BucketLinkRead
    \/ BucketLinkUpdate
    \/ BucketLinkDelete

Spec == Init /\ [][Next]_vars

\* the provider alone, in every environment
InitProvider ==
    /\ ident = [kind |-> "user_quota", uid |-> "u1", bucket |-> "", type |-> "user"]
    /\ client = Null
    /\ state = Null
    /\ remote = [quota |-> DefaultRemoteQuota, owner |-> Null]
    /\ last = NoHandler
    /\ prov \in {NewProvider(env) : env \in Envs}

NextProvider == ProviderConfigure

SpecProvider == InitProvider /\ [][NextProvider]_vars

\* the provider's Configure and the resources' Configure together, in every
\* environment
NextConfigure == ProviderConfigure \/ ResourceConfigure

SpecConfigure == InitProvider /\ [][NextConfigure]_vars

(***************************************************************************)
(* Properties.                                                             *)
(***************************************************************************)

CRUD == {"Create", "Read", "Update", "Delete"}

QuotaKinds == {"bucket_quota", "user_quota", "quota"}

\* the last handler was h, and it got past decoding its plan or state
Handled(h) == last.handler = h /\ last.decoded

\* the not-found error of a resource kind's remote object
NotFound(kind) == IF kind = "bucket_quota" THEN ErrNoSuchBucket ELSE ErrNoSuchUser

\* C1: when the lookup made by Read reports that the remote object does not
\* exist, Read removes the resource from state and records no error
C1_ReadNotFoundRemoves ==
    (Handled("Read") /\ last.calls # <<>> /\ last.calls[1].err = NotFound(ident.kind))
        => (state = Null /\ last.diags = 0 /\ Len(last.calls) = 1)

C1_Witness ==
    /\ Handled("Read")
    /\ last.calls # <<>>
    /\ last.calls[1].err = NotFound(ident.kind)
    /\ last.prior # Null
    /\ state = Null

\* C2: Delete of a quota resource whose setter fails with the not-found error
\* records no error and the resource is dropped from state
C2_DeleteNotFoundSucceeds ==
    (Handled("Delete") /\ ident.kind \in QuotaKinds
        /\ last.calls # <<>> /\ last.calls[1].err = NotFound(ident.kind))
        => (last.diags = 0 /\ state = Null)

QuotaSetters == {"SetIndividualBucketQuota", "SetUserQuota", "SetBucketQuota"}

\* C3: the one setter call Delete of a quota resource issues carries
\* Enabled = false for the uid (and bucket or quota type) of the state, and a
\* Delete that succeeds leaves the remote quota disabled
C3_DeleteDisablesQuota ==
    [][ (last'.handler = "Delete" /\ last'.decoded /\ ident.kind \in QuotaKinds) =>
          LET c == last'.calls[1]
              d == last'.data[1]
          IN  /\ Len(last'.calls) = 1
              /\ last'.prior = Some(d)
              /\ c.method \in QuotaSetters
              /\ c.req.Enabled = Some(FALSE)
              /\ c.req.UID = d.uid
              /\ (ident.kind = "bucket_quota" => c.req.Bucket = d.bucket)
              /\ (ident.kind = "quota" => c.req.QuotaType = d.type)
              /\ (ident.kind = "user_quota" => c.req.QuotaType = "user")
              /\ (c.err = ErrNil /\ state # Null /\ state' = Null)
                    => remote'.quota.enabled = Some(FALSE) ]_vars

C3_Witness ==
    /\ Handled("Delete")
    /\ ident.kind \in QuotaKinds
    /\ last.data[1].enabled = TRUE
    /\ last.calls[1].err = ErrNil
    /\ last.calls[1].req.Enabled = Some(FALSE)
    /\ state = Null
    /\ remote.quota.enabled = Some(FALSE)

\* C4: a remote error returned to Create or Update is recorded as an error
\* diagnostic and the state is not written: a failed Create leaves the
\* resource absent and a failed Update leaves the prior state
C4_SetErrorsSurface ==
    (last.handler \in {"Create", "Update"} /\ last.decoded
        /\ last.calls # <<>> /\ last.calls[1].err # ErrNil)
        => /\ last.diags >= 1
           /\ state = last.prior
           /\ (last.handler = "Create" => state = Null)

C4_Witness ==
    /\ Handled("Update")
    /\ last.calls # <<>>
    /\ last.calls[1].err = ErrNoSuchBucket
    /\ last.diags = 1
    /\ state # Null
    /\ state = last.prior
    /\ state[1].enabled # last.data[1].enabled

\* C5 as claimed: every Create, Read, Update and Delete handler that decoded
\* its plan or state calls exactly one admin-client method
C5_ExactlyOneCall ==
    (last.handler \in CRUD /\ last.decoded) => Len(last.calls) = 1

\* C5 amended: every handler that decoded its plan or state calls exactly one
\* admin-client method, except Update of a bucket link, which calls none
C5_OneCallButLinkUpdate ==
    (last.handler \in CRUD /\ last.decoded)
        => Len(last.calls) =
              IF ident.kind = "bucket_link" /\ last.handler = "Update" THEN 0 ELSE 1

C5_Witness ==
    /\ Handled("Update")
    /\ ident.kind = "bucket_link"
    /\ last.calls = <<>>
    /\ last.diags = 0
    /\ state = last.data
    /\ state # last.prior

\* the size limit of a request is the one plan p declares
PlannedSizeLimit(req, p) ==
    IF ident.kind = "user_quota"
    THEN req.MaxSize = p.max_size /\ req.MaxSizeKb = p.max_size_kb
    ELSE IF p.max_size_kb # Null /\ p.max_size_kb # I64(0)
    THEN req.MaxSizeKb = p.max_size_kb /\ req.MaxSize = Null
    ELSE req.MaxSize = I64(-1) /\ req.MaxSizeKb = Null

\* C6: a successful Read makes every quota attribute the answer carries equal
\* to the remote value, and the setter call of an Update carries the enabled,
\* check_on_raw, size limit and max_objects of the plan, not of the state
C6_DriftReconciled ==
    /\ (Handled("Read") /\ ident.kind \in QuotaKinds /\ last.diags = 0 /\ state # Null)
          => LET q == last.calls[1].resp
                 st == state[1]
             IN  /\ (q.enabled # Null => st.enabled = q.enabled[1])
                 /\ st.check_on_raw = q.check_on_raw
                 /\ (q.max_size # Null => st.max_size = q.max_size)
                 /\ (q.max_size_kb # Null => st.max_size_kb = q.max_size_kb)
                 /\ (q.max_objects # Null => st.max_objects = q.max_objects)
    /\ (Handled("Update") /\ ident.kind \in QuotaKinds)
          => LET req == last.calls[1].req
                 p == last.data[1]
             IN  /\ last.calls[1].method \in QuotaSetters
                 /\ req.Enabled = Some(p.enabled)
                 /\ req.CheckOnRaw = p.check_on_raw
                 /\ req.MaxObjects = p.max_objects
                 /\ PlannedSizeLimit(req, p)

\* an Update that follows a Read which found the remote's max_objects changed
\* out of band to 9, and sends the plan's 7
C6_Witness ==
    /\ Handled("Update")
    /\ ident.kind \in QuotaKinds
    /\ last.calls[1].err = ErrNil
    /\ last.prior # Null
    /\ last.prior[1].max_objects = I64(9)
    /\ last.prior[1].max_size = I64(2048)
    /\ last.calls[1].req.MaxObjects = I64(7)
    /\ state[1].max_objects = I64(7)

\* C7 as claimed: Delete of a bucket link issues exactly one ownership call,
\* UnlinkBucket(bucket, uid) when unlink_to_uid is null and
\* LinkBucket(bucket, unlink_to_uid) when it is set, and never links to the
\* original uid
C7_NeverLinksToOriginal ==
    (Handled("Delete") /\ ident.kind = "bucket_link")
        => LET c == last.calls[1]
               d == last.data[1]
           IN  /\ Len(last.calls) = 1
               /\ (d.unlink_to_uid = Null
                     => c.method = "UnlinkBucket"
                        /\ c.req = [Bucket |-> d.bucket, UID |-> d.uid])
               /\ (d.unlink_to_uid # Null
                     => c.method = "LinkBucket"
                        /\ c.req = [Bucket |-> d.bucket, UID |-> d.unlink_to_uid[1]])
               /\ ~(c.method = "LinkBucket" /\ c.req.UID = d.uid)

\* C7 amended: as claimed, except that the call links to the original uid
\* exactly when unlink_to_uid is set to that uid; a successful relink leaves
\* the bucket owned by unlink_to_uid
C7_DeleteOwnershipCall ==
    [][ (last'.handler = "Delete" /\ last'.decoded /\ ident.kind = "bucket_link") =>
          LET c == last'.calls[1]
              d == last'.data[1]
          IN  /\ Len(last'.calls) = 1
              /\ last'.prior = Some(d)
              /\ (d.unlink_to_uid = Null
                    => c.method = "UnlinkBucket"
                       /\ c.req = [Bucket |-> d.bucket, UID |-> d.uid])
              /\ (d.unlink_to_uid # Null
                    => c.method = "LinkBucket"
                       /\ c.req = [Bucket |-> d.bucket, UID |-> d.unlink_to_uid[1]])
              /\ ((c.method = "LinkBucket" /\ c.req.UID = d.uid)
                    <=> d.unlink_to_uid = Some(d.uid))
              /\ (c.err = ErrNil /\ d.unlink_to_uid # Null /\ state # Null /\ state' = Null)
                    => remote'.owner = d.unlink_to_uid ]_vars

C7_Witness ==
    /\ Handled("Delete")
    /\ ident.kind = "bucket_link"
    /\ last.data[1].uid = "u1"
    /\ last.data[1].unlink_to_uid = Some("u2")
    /\ last.calls[1].method = "LinkBucket"
    /\ last.calls[1].err = ErrNil
    /\ remote.owner = Some("u2")
    /\ state = Null

\* C8: Configure takes each of endpoint, access_key and secret_key from the
\* configuration when it is non-null and from its environment variable only
\* when it is null, and gives the same three values to both clients
C8_ConfigBeforeEnv ==
    (prov.ran /\ prov.config # Null)
        => LET c == prov.config[1]
               a == prov.adminArgs[1]
           IN  /\ a.endpoint = IF c.endpoint # Null THEN c.endpoint[1]
                               ELSE prov.env.TF_PROVIDER_RGW_ENDPOINT
               /\ a.access_key = IF c.access_key # Null THEN c.access_key[1]
                                 ELSE prov.env.TF_PROVIDER_RGW_ACCESS_KEY
               /\ a.secret_key = IF c.secret_key # Null THEN c.secret_key[1]
                                 ELSE prov.env.TF_PROVIDER_RGW_SECRET_KEY
               /\ (prov.admin # Null <=> prov.s3 # Null)
               /\ (prov.s3 # Null
                     => /\ prov.s3[1].endpoint = a.endpoint
                        /\ prov.s3[1].access_key = a.access_key
                        /\ prov.s3[1].secret_key = a.secret_key)

C8_Witness ==
    /\ prov.ran
    /\ prov.config # Null
    /\ prov.config[1].endpoint = Some("https://cfg")
    /\ prov.env.TF_PROVIDER_RGW_ENDPOINT = "https://env"
    /\ prov.config[1].access_key = Null
    /\ prov.env.TF_PROVIDER_RGW_ACCESS_KEY = "envAK"
    /\ prov.s3 # Null
    /\ prov.s3[1].endpoint = "https://cfg"
    /\ prov.s3[1].access_key = "envAK"

\* C9: Delete of a bucket link records no error when its call succeeds or
\* fails with ErrNoSuchBucket and exactly one error for every other error,
\* ErrNoSuchUser included, whether it unlinks or links to unlink_to_uid
C9_LinkDeleteDiagnostics ==
    (Handled("Delete") /\ ident.kind = "bucket_link")
        => /\ Len(last.calls) = 1
           /\ last.diags =
                 IF last.calls[1].err \in {ErrNil, ErrNoSuchBucket} THEN 0 ELSE 1
           /\ (last.diags = 0 <=> state = Null)

C9_Witness ==
    /\ Handled("Delete")
    /\ ident.kind = "bucket_link"
    /\ last.calls[1].method = "LinkBucket"
    /\ last.calls[1].err = ErrNoSuchUser
    /\ last.diags = 1
    /\ state # Null

\* C10: after a successful Create or Update of a bucket quota or uid/type
\* quota the state's max_size is max_size_kb * 1024 for every non-zero
\* max_size_kb and -1 for 0 or null, and max_size_kb is stored as planned
C10_MaxSizeIsKbTimes1024 ==
    (last.handler \in {"Create", "Update"} /\ last.decoded
        /\ ident.kind \in {"bucket_quota", "quota"} /\ last.diags = 0 /\ state # Null)
        => LET kb == last.data[1].max_size_kb
           IN  /\ state[1].max_size =
                     IF kb = Null \/ kb = I64(0) THEN I64(-1) ELSE Exact1024(kb)
               /\ state[1].max_size_kb = kb

\* C11: the request that Create and Update of a bucket quota or uid/type
\* quota send carries exactly one size limit: MaxSizeKb = max_size_kb and no
\* MaxSize when max_size_kb is non-null and non-zero, otherwise MaxSize = -1
\* and no MaxSizeKb; never both, never neither
C11_ExactlyOneSizeLimit ==
    (last.handler \in {"Create", "Update"} /\ last.decoded
        /\ ident.kind \in {"bucket_quota", "quota"})
        => LET req == last.calls[1].req
               kb == last.data[1].max_size_kb
           IN  /\ (req.MaxSize = Null) # (req.MaxSizeKb = Null)
               /\ (kb # Null /\ kb # I64(0))
                     => (req.MaxSizeKb = kb /\ req.MaxSize = Null)
               /\ (kb = Null \/ kb = I64(0))
                     => (req.MaxSize = I64(-1) /\ req.MaxSizeKb = Null)

\* an Update that replaces a KB limit of 5 by no limit
C11_Witness ==
    /\ ident.kind \in {"bucket_quota", "quota"}
    /\ Handled("Update")
    /\ last.prior # Null
    /\ last.prior[1].max_size_kb = I64(5)
    /\ last.data[1].max_size_kb = I64(0)
    /\ last.calls[1].req.MaxSize = I64(-1)
    /\ last.calls[1].req.MaxSizeKb = Null

\* C12: the setter request of Delete of a bucket quota or uid/type quota
\* carries MaxSize = -1, MaxObjects = -1 and no MaxSizeKb whatever limits the
\* state holds, and keeps the state's uid, bucket or quota type, and
\* check_on_raw
C12_DeleteResetsLimits ==
    (Handled("Delete") /\ ident.kind \in {"bucket_quota", "quota"})
        => LET req == last.calls[1].req
               d == last.data[1]
           IN  /\ last.prior = Some(d)
               /\ req.MaxSize = I64(-1)
               /\ req.MaxObjects = I64(-1)
               /\ req.MaxSizeKb = Null
               /\ req.UID = d.uid
               /\ req.CheckOnRaw = d.check_on_raw
               /\ (ident.kind = "bucket_quota" => req.Bucket = d.bucket)
               /\ (ident.kind = "quota" => req.QuotaType = d.type)

\* a Delete of a bucket quota whose state holds a KB limit of 5 and 7 objects
C12_Witness ==
    /\ Handled("Delete")
    /\ ident.kind = "bucket_quota"
    /\ last.data[1].max_size_kb = I64(5)
    /\ last.data[1].max_objects = I64(7)
    /\ last.data[1].check_on_raw = FALSE
    /\ last.calls[1].req.MaxSize = I64(-1)
    /\ last.calls[1].req.MaxObjects = I64(-1)
    /\ last.calls[1].err = ErrNil
    /\ state = Null

\* C13: the request of Create, Update and Delete of a user quota has
\* QuotaType "user" and carries each of MaxSize, MaxSizeKb and MaxObjects
\* exactly when the attribute is non-null, with the attribute's value; Delete
\* differs from Create and Update on the same data only in Enabled = false,
\* so a successful Delete leaves on the remote the max_objects of the state,
\* or the remote's own when the state has none, and not a reset one
C13_UserQuotaRequest ==
    [][ (last'.handler \in {"Create", "Update", "Delete"} /\ last'.decoded
            /\ ident.kind = "user_quota") =>
          LET req == last'.calls[1].req
              d == last'.data[1]
          IN  /\ last'.calls[1].method = "SetUserQuota"
              /\ req.QuotaType = "user"
              /\ req.UID = d.uid
              /\ req.CheckOnRaw = d.check_on_raw
              /\ (req.MaxSize # Null) = (d.max_size # Null)
              /\ (d.max_size # Null => req.MaxSize = d.max_size)
              /\ (req.MaxSizeKb # Null) = (d.max_size_kb # Null)
              /\ (d.max_size_kb # Null => req.MaxSizeKb = d.max_size_kb)
              /\ (req.MaxObjects # Null) = (d.max_objects # Null)
              /\ (d.max_objects # Null => req.MaxObjects = d.max_objects)
              /\ req.Enabled =
                    IF last'.handler = "Delete" THEN Some(FALSE) ELSE Some(d.enabled)
              /\ (last'.handler = "Delete" /\ state # Null /\ state' = Null)
                    => remote'.quota.max_objects =
                          IF d.max_objects # Null THEN d.max_objects
                          ELSE remote.quota.max_objects ]_vars

\* a successful Delete of an enabled user quota with 7 objects and no size
\* limit in state: the request carries MaxObjects = 7 alone, and the remote
\* keeps 7
C13_Witness ==
    /\ Handled("Delete")
    /\ ident.kind = "user_quota"
    /\ last.data[1].enabled = TRUE
    /\ last.data[1].max_objects = I64(7)
    /\ last.data[1].max_size_kb = I64(5)
    /\ last.data[1].max_size = Null
    /\ last.calls[1].req.MaxObjects = I64(7)
    /\ last.calls[1].req.MaxSize = Null
    /\ last.calls[1].req.Enabled = Some(FALSE)
    /\ last.calls[1].err = ErrNil
    /\ state = Null
    /\ remote.quota.max_objects = I64(7)

\* the remote holds exactly what setter request req carried: max_size is
\* 1024 * max_size_kb when the request set a KB limit, and max_size = -1 with
\* max_size_kb = 0 when it set MaxSize = -1
RemoteStored(req, q) ==
    /\ q.enabled = req.Enabled
    /\ q.check_on_raw = req.CheckOnRaw
    /\ q.max_objects = req.MaxObjects
    /\ IF req.MaxSizeKb # Null
       THEN /\ q.max_size_kb = req.MaxSizeKb
            /\ q.max_size \in {Exact1024(req.MaxSizeKb), Mul1024(req.MaxSizeKb)}
       ELSE /\ req.MaxSize = I64(-1)
            /\ q.max_size = I64(-1)
            /\ q.max_size_kb = I64(0)

\* C14: for a bucket quota or uid/type quota with max_size_kb >= 0, a Read
\* that follows a successful Create or Update and finds on the remote what
\* the setter received leaves every attribute of the state as Create or
\* Update wrote it
C14_ReadAfterWriteNoDrift ==
    [][ ( /\ ident.kind \in {"bucket_quota", "quota"}
          /\ last.handler \in {"Create", "Update"} /\ last.decoded /\ last.diags = 0
          /\ last.data[1].max_size_kb[1] >= 0
          /\ last'.handler = "Read" /\ last'.decoded
          /\ last'.calls[1].err = ErrNil
          /\ RemoteStored(last.calls[1].req, last'.calls[1].resp) )
        => /\ state # Null
           /\ state' = state
           /\ last'.diags = 0 ]_vars

\* a Read that found the KB limit of 5 and the 7 objects a setter stored, and
\* left the state as it was
C14_Witness ==
    /\ Handled("Read")
    /\ ident.kind \in {"bucket_quota", "quota"}
    /\ last.calls[1].err = ErrNil
    /\ last.calls[1].resp.max_size_kb = I64(5)
    /\ last.calls[1].resp.max_size = I64(5120)
    /\ last.calls[1].resp.max_objects = I64(7)
    /\ last.calls[1].resp.enabled = Some(TRUE)
    /\ last.prior # Null
    /\ last.prior[1].max_size = I64(5120)
    /\ last.prior[1].enabled = TRUE
    /\ state = last.prior

\* C15: a successful Read of a quota resource leaves uid (and bucket or type)
\* as they were, makes check_on_raw the remote value, and makes each of
\* enabled, max_size, max_size_kb, max_objects the remote value when the
\* answer carries the field and leaves the prior value when it does not
C15_ReadFrame ==
    (Handled("Read") /\ ident.kind \in QuotaKinds /\ last.diags = 0 /\ state # Null)
        => LET q == last.calls[1].resp
               p == last.data[1]
               st == state[1]
           IN  /\ last.prior = Some(p)
               /\ st.uid = p.uid
               /\ (ident.kind = "bucket_quota" => st.bucket = p.bucket)
               /\ (ident.kind = "quota" => st.type = p.type)
               /\ DOMAIN st = DOMAIN p
               /\ st.check_on_raw = q.check_on_raw
               /\ st.enabled = IF q.enabled # Null THEN q.enabled[1] ELSE p.enabled
               /\ st.max_size = IF q.max_size # Null THEN q.max_size ELSE p.max_size
               /\ st.max_size_kb =
                     IF q.max_size_kb # Null THEN q.max_size_kb ELSE p.max_size_kb
               /\ st.max_objects =
                     IF q.max_objects # Null THEN q.max_objects ELSE p.max_objects

\* a Read whose answer carries max_objects = 9 and no enabled, max_size or
\* max_size_kb: the state keeps its size limits and takes the 9
C15_Witness ==
    /\ Handled("Read")
    /\ ident.kind \in QuotaKinds
    /\ last.diags = 0
    /\ last.calls[1].resp.enabled = Null
    /\ last.calls[1].resp.max_size = Null
    /\ last.calls[1].resp.max_objects = I64(9)
    /\ last.calls[1].resp.check_on_raw = TRUE
    /\ last.data[1].max_size_kb = I64(5)
    /\ last.data[1].max_objects = I64(7)
    /\ last.data[1].check_on_raw = FALSE
    /\ last.data[1].enabled = TRUE
    /\ state # Null
    /\ state[1].max_size_kb = I64(5)
    /\ state[1].max_objects = I64(9)
    /\ state[1].check_on_raw = TRUE
    /\ state[1].enabled = TRUE

\* C16: when GetUserQuota succeeds, Read of a user quota whose answer names
\* another UID than the state's uid records an error and leaves the state as
\* it was, neither updated nor removed; when the UIDs are equal it records
\* no error and copies the answer into the state
C16_WrongUserRejected ==
    (Handled("Read") /\ ident.kind = "user_quota" /\ last.calls[1].err = ErrNil)
        => LET c == last.calls[1]
               q == last.calls[1].resp
           IN  IF c.respUID # last.data[1].uid
               THEN /\ last.diags >= 1
                    /\ state # Null
                    /\ state = last.prior
               ELSE /\ last.diags = 0
                    /\ state # Null
                    /\ state[1].uid = c.respUID
                    /\ state[1].check_on_raw = q.check_on_raw
                    /\ (q.enabled # Null => state[1].enabled = q.enabled[1])
                    /\ (q.max_size # Null => state[1].max_size = q.max_size)
                    /\ (q.max_size_kb # Null => state[1].max_size_kb = q.max_size_kb)
                    /\ (q.max_objects # Null => state[1].max_objects = q.max_objects)

\* a Read answered with another user's quota, whose check_on_raw and
\* max_objects differ from the state's: the state keeps its own
C16_Witness ==
    /\ Handled("Read")
    /\ ident.kind = "user_quota"
    /\ last.calls[1].err = ErrNil
    /\ last.calls[1].respUID # last.data[1].uid
    /\ last.calls[1].resp.max_objects = I64(9)
    /\ last.calls[1].resp.check_on_raw = TRUE
    /\ last.diags = 1
    /\ state # Null
    /\ state[1].max_objects = I64(7)
    /\ state[1].check_on_raw = FALSE

\* C17: Read of a bucket link keeps the resource, with uid, bucket and
\* unlink_to_uid unchanged, exactly when the listing succeeds and the list
\* holds a name equal to the state's bucket; it removes the resource without
\* error when the user does not exist or the bucket is not in the list; on any
\* other listing error it records an error and leaves the state as it was
C17_LinkReadKeepsOrRemoves ==
    (Handled("Read") /\ ident.kind = "bucket_link")
        => LET c == last.calls[1]
               d == last.data[1]
               listed == \E i \in 1..Len(c.buckets) : c.buckets[i] = d.bucket
           IN  /\ c.method = "ListUsersBuckets" /\ c.req = d.uid
               /\ last.prior = Some(d)
               /\ (state # Null /\ last.diags = 0) <=> (c.err = ErrNil /\ listed)
               /\ (c.err = ErrNil /\ listed) => state = Some(d)
               /\ (c.err = ErrNoSuchUser \/ (c.err = ErrNil /\ ~listed))
                     => (state = Null /\ last.diags = 0)
               /\ (c.err \notin {ErrNil, ErrNoSuchUser})
                     => (last.diags >= 1 /\ state = Some(d))

\* a Read whose listing succeeded without the state's bucket: the link is
\* removed without error
C17_Witness ==
    /\ Handled("Read")
    /\ ident.kind = "bucket_link"
    /\ last.calls[1].err = ErrNil
    /\ last.calls[1].buckets = << "b0" >>
    /\ last.data[1].bucket = "b1"
    /\ last.prior # Null
    /\ state = Null
    /\ last.diags = 0

\* the admin-client methods of the user family and of the bucket family
UserFamily == {"SetUserQuota", "GetUserQuota"}

BucketFamily == {"SetBucketQuota", "GetBucketQuota"}

\* C18: every handler of a uid/type quota calls the API family of its type:
\* SetUserQuota / GetUserQuota for type "user", SetBucketQuota /
\* GetBucketQuota for every other type; the type is "user" or "bucket" and
\* stays what it was at creation, so all calls made for one resource are of
\* one family, and every setter request carries the state's type as QuotaType
C18_OneApiFamily ==
    [][ (ident.kind = "quota" /\ last'.handler \in CRUD /\ last'.decoded) =>
          LET c == last'.calls[1]
              d == last'.data[1]
          IN  /\ d.type \in QuotaTypes
              /\ d.type = ident.type
              /\ (state' # Null => state'[1].type = d.type)
              /\ c.method \in (IF d.type = "user" THEN UserFamily ELSE BucketFamily)
              /\ c.method \in (IF last'.handler = "Read"
                               THEN {"GetUserQuota", "GetBucketQuota"}
                               ELSE {"SetUserQuota", "SetBucketQuota"})
              /\ (last'.handler # "Read" => c.req.QuotaType = d.type)
              /\ (last.handler \in CRUD /\ last.decoded)
                    => (c.method \in UserFamily <=> last.calls[1].method \in UserFamily)
    ]_vars

\* a successful Read of a uid/type quota of type "bucket", through
\* GetBucketQuota, of a quota a setter of the same family stored
C18_Witness ==
    /\ Handled("Read")
    /\ ident.kind = "quota"
    /\ last.data[1].type = "bucket"
    /\ last.calls[1].method = "GetBucketQuota"
    /\ last.calls[1].err = ErrNil
    /\ last.calls[1].resp.max_size = I64(5120)
    /\ last.diags = 0
    /\ state # Null
    /\ state[1].type = "bucket"

\* what the provider's Configure left: nothing published and an error when
\* the configuration could not be decoded or admin.New refused its arguments,
\* and otherwise one RgwClient, with an admin and an S3 client, published as
\* both ResourceData and DataSourceData
ProviderPublished(p) ==
    p.ran =>
        IF p.config = Null
              \/ AdminNewFails(p.adminArgs[1].endpoint, p.adminArgs[1].access_key,
                               p.adminArgs[1].secret_key)
        THEN /\ p.diags >= 1
             /\ p.ResourceData = Null
             /\ p.DataSourceData = Null
        ELSE /\ p.diags = 0
             /\ p.ResourceData = Some("RgwClient")
             /\ p.DataSourceData = p.ResourceData
             /\ p.admin # Null
             /\ p.s3 # Null

\* C19: the provider's Configure publishes its client all or nothing: on
\* failure it records an error and sets neither ResourceData nor
\* DataSourceData, on success it sets both to the same RgwClient holding an
\* admin and an S3 client. A resource's Configure stores the client only when
\* the provider data is an RgwClient; it leaves the client as it was without
\* error when the data is nil, and records an error without changing the
\* client when the data is of another type
C19_ClientAllOrNothing ==
    [][ /\ ProviderPublished(prov')
        /\ (last'.handler = "Configure" /\ last' # last) =>
              LET pd == last'.data
              IN  IF pd = Null
                  THEN client' = client /\ last'.diags = 0
                  ELSE IF pd[1] = "RgwClient"
                  THEN client' = pd /\ last'.diags = 0
                  ELSE client' = client /\ last'.diags >= 1 ]_vars

\* a resource configured with the client a successful provider Configure
\* published
C19_Witness ==
    /\ prov.ran
    /\ prov.diags = 0
    /\ prov.ResourceData = Some("RgwClient")
    /\ prov.DataSourceData = Some("RgwClient")
    /\ prov.admin # Null
    /\ prov.s3 # Null
    /\ last.handler = "Configure"
    /\ last.data = prov.ResourceData
    /\ last.diags = 0
    /\ client = prov.ResourceData

====
